---- MODULE Spec2Model ----
(***************************************************************************)
(* Model of the ECG upload server (http_server.py) and the stand-alone     *)
(* extractor (extract_ecg_pdf.py).                                         *)
(*                                                                         *)
(* Byte strings are sequences of integers 0..255; Python str values are    *)
(* sequences of Unicode code points.  The codecs the program calls         *)
(* (UTF-8, UTF-16, base64, the XML parser) are modelled by what they do to *)
(* those sequences.                                                        *)
(***************************************************************************)
EXTENDS Integers, Sequences, FiniteSets, TLC

VARIABLES
    arg,        \* the byte string handed to a function under study
    fn,         \* the function that was applied to arg ("" before the call)
    tag,        \* what detect_file_type returned for arg ("" before the call)
    pdf,        \* what the extractor returned for arg (NotCalled before the call)
    files,      \* the upload directory ftp_data: file name -> file content
    now,        \* the wall clock, in whole seconds
    served,     \* number of requests handled so far
    last        \* what the last handled request did (NoRequest before any)

vars == <<arg, fn, tag, pdf, files, now, served, last>>

(***************************************************************************)
(* Sequence helpers (Python slicing, startswith, `in`, lower).             *)
(***************************************************************************)
Min(a, b) == IF a <= b THEN a ELSE b

\* s[:n]
Take(s, n) == SubSeq(s, 1, Min(n, Len(s)))

\* s[n:]
Drop(s, n) == SubSeq(s, Min(n, Len(s)) + 1, Len(s))

\* s.startswith(p)
StartsWith(s, p) == Len(p) <= Len(s) /\ SubSeq(s, 1, Len(p)) = p

\* p in s
Contains(s, p) == \E i \in 1..(Len(s) - Len(p) + 1) : SubSeq(s, i, i + Len(p) - 1) = p

\* bytes.lower(): only ASCII A-Z are folded
Lower(s) == [i \in 1..Len(s) |-> IF s[i] \in 65..90 THEN s[i] + 32 ELSE s[i]]

\* n copies of the byte c
Repeat(c, n) == [i \in 1..n |-> c]

(***************************************************************************)
(* Literals of the program.                                                *)
(***************************************************************************)
PDF_SIG == <<37, 80, 68, 70>>                               \* b'%PDF'
XML_DECL == <<60, 63, 120, 109, 108>>                       \* '<?xml'
ECG_ROOT == <<60, 114, 101, 115, 116, 105, 110, 103, 101, 99, 103, 100, 97, 116, 97>>  \* '<restingecgdata'
HTML_TAG == <<60, 104, 116, 109, 108>>                      \* b'<html'
DOCTYPE_TAG == <<60, 33, 100, 111, 99, 116, 121, 112, 101>> \* b'<!doctype'
BOM_LE == <<255, 254>>                                      \* b'\xff\xfe'
BOM_BE == <<254, 255>>                                      \* b'\xfe\xff'
B64_PDF_PREFIX == <<74, 86, 66, 69, 82, 105>>               \* 'JVBERi'
STUDY_DATA == <<83, 116, 117, 100, 121, 68, 97, 116, 97>>   \* 'StudyData'

\* Python's None, as the value of an extraction that found no document.  No
\* byte string or text holds a negative number.
None == <<-1>>

\* The value of a call that raised an exception.
Raised == <<-3>>

\* The value of pdf before the extractor has run.
NotCalled == <<-2>>

(***************************************************************************)
(* What a handled request leaves behind for inspection: the method, the    *)
(* status of the response, the bytes read, the tag and the calls made, the *)
(* names of the files written (in the order of the writes).                *)
(***************************************************************************)
Reply(method, status) ==
    [ method      |-> method,
      status      |-> status,
      payload     |-> <<>>,
      tag         |-> "",
      classified  |-> 0,      \* calls of detect_file_type
      extractions |-> 0,      \* calls of extract_pdf_from_xml
      extracted   |-> None,   \* what extract_pdf_from_xml returned
      base_name   |-> <<>>,
      written     |-> <<>> ]

NoRequest == Reply("", 0)

(***************************************************************************)
(* bytes.decode('utf-16-le' / 'utf-16-be').  strict = TRUE is the default  *)
(* error handler (any error raises), strict = FALSE is errors='ignore'     *)
(* (the offending bytes are dropped).  The BOM is not removed by these two *)
(* codecs: it decodes to U+FEFF.                                           *)
(***************************************************************************)
Unit16(b, i, bigEndian) ==
    IF bigEndian THEN b[i] * 256 + b[i + 1] ELSE b[i + 1] * 256 + b[i]

IsHighSurrogate(u) == u \in 55296..56319
IsLowSurrogate(u) == u \in 56320..57343

\* Every step of the codec consumes two bytes, four bytes or the rest of the
\* input, so the 16-bit units sit at fixed positions: unit k is bytes 2k-1, 2k.
Units16(b, bigEndian) == [k \in 1..(Len(b) \div 2) |-> Unit16(b, 2 * k - 1, bigEndian)]

\* Whether the input holds something the codec reports as an error: a stray
\* last byte (truncated data), a high surrogate without a low one after it
\* (illegal UTF-16 surrogate, unexpected end of data), a low surrogate
\* without a high one before it (illegal encoding).
Utf16Error(b, bigEndian) ==
    LET u == Units16(b, bigEndian) IN
    \/ Len(b) % 2 = 1
    \/ \E k \in 1..Len(u) :
          \/ IsHighSurrogate(u[k]) /\ ~(k < Len(u) /\ IsLowSurrogate(u[k + 1]))
          \/ IsLowSurrogate(u[k]) /\ ~(k > 1 /\ IsHighSurrogate(u[k - 1]))

\* The code point unit k yields, -1 when it yields none (second half of a
\* pair, or bytes in error, which errors='ignore' drops).
Utf16Item(u, k) ==
    IF ~IsHighSurrogate(u[k]) /\ ~IsLowSurrogate(u[k]) THEN u[k]
    ELSE IF IsHighSurrogate(u[k]) /\ k < Len(u) /\ IsLowSurrogate(u[k + 1])
        THEN 65536 + (u[k] - 55296) * 1024 + (u[k + 1] - 56320)
    ELSE -1

IsCodePoint(c) == c >= 0

DecodeUtf16(b, bigEndian, strict) ==
    IF strict /\ Utf16Error(b, bigEndian) THEN Raised
    ELSE LET u == Units16(b, bigEndian) IN
         SelectSeq([k \in 1..Len(u) |-> Utf16Item(u, k)], IsCodePoint)

(***************************************************************************)
(* bytes.decode('utf-8'), strict or errors='ignore'.                       *)
(***************************************************************************)
IsCont(x) == x \in 128..191

\* Number of bytes the well-formed UTF-8 sequence starting with lead byte x
\* has (0: x cannot start a sequence).
Utf8Need(x) ==
    IF x <= 127 THEN 1
    ELSE IF x \in 194..223 THEN 2
    ELSE IF x \in 224..239 THEN 3
    ELSE IF x \in 240..244 THEN 4
    ELSE 0

\* Whether y may follow lead byte x as the second byte (rules out overlong
\* forms, surrogates and code points above U+10FFFF).
Utf8Second(x, y) ==
    IF x = 224 THEN y \in 160..191
    ELSE IF x = 237 THEN y \in 128..159
    ELSE IF x = 240 THEN y \in 144..191
    ELSE IF x = 244 THEN y \in 128..143
    ELSE IsCont(y)

\* How many bytes from position i on are a valid start of a sequence.
Utf8Good(b, i) ==
    LET n == Utf8Need(b[i]) IN
    IF n = 0 THEN 0
    ELSE IF n = 1 \/ i + 1 > Len(b) \/ ~Utf8Second(b[i], b[i + 1]) THEN 1
    ELSE IF n = 2 \/ i + 2 > Len(b) \/ ~IsCont(b[i + 2]) THEN 2
    ELSE IF n = 3 \/ i + 3 > Len(b) \/ ~IsCont(b[i + 3]) THEN 3
    ELSE 4

Utf8Value(b, i, n) ==
    IF n = 1 THEN b[i]
    ELSE IF n = 2 THEN (b[i] - 192) * 64 + (b[i + 1] - 128)
    ELSE IF n = 3 THEN (b[i] - 224) * 4096 + (b[i + 1] - 128) * 64 + (b[i + 2] - 128)
    ELSE (b[i] - 240) * 262144 + (b[i + 1] - 128) * 4096
             + (b[i + 2] - 128) * 64 + (b[i + 3] - 128)

\* The decoder works in steps: at a position it either reads one complete
\* sequence or reports the longest valid start of one (at least one byte) as
\* an error and goes on behind it.  A step swallows only continuation bytes
\* after its first byte, so a byte that is no continuation byte always starts
\* a step; a continuation byte starts one unless the step of the nearest
\* non-continuation byte before it (at most three back) reaches it.
Utf8Lead(b, i) ==
    IF i > 1 /\ ~IsCont(b[i - 1]) THEN i - 1
    ELSE IF i > 2 /\ ~IsCont(b[i - 2]) THEN i - 2
    ELSE IF i > 3 /\ ~IsCont(b[i - 3]) THEN i - 3
    ELSE 0

Utf8Starts(b, i) ==
    \/ ~IsCont(b[i])
    \/ Utf8Lead(b, i) = 0
    \/ i >= Utf8Lead(b, i) + Utf8Good(b, Utf8Lead(b, i))

\* The step at i reads a complete sequence.
Utf8Complete(b, i) == Utf8Need(b[i]) > 0 /\ Utf8Good(b, i) = Utf8Need(b[i])

Utf8Error(b) == \E i \in 1..Len(b) : Utf8Starts(b, i) /\ ~Utf8Complete(b, i)

\* The code point read at position i, -1 when none is (errors='ignore' drops
\* the bytes in error and puts nothing in their place).
Utf8Item(b, i) ==
    IF Utf8Starts(b, i) /\ Utf8Complete(b, i) THEN Utf8Value(b, i, Utf8Need(b[i]))
    ELSE -1

DecodeUtf8(b, strict) ==
    IF strict /\ Utf8Error(b) THEN Raised
    ELSE SelectSeq([i \in 1..Len(b) |-> Utf8Item(b, i)], IsCodePoint)

(***************************************************************************)
(* str.strip(): removes leading and trailing characters c for which        *)
(* c.isspace() holds.                                                      *)
(***************************************************************************)
IsSpace(c) ==
    \/ c \in 9..13
    \/ c \in 28..32
    \/ c \in {133, 160, 5760, 8232, 8233, 8239, 8287, 12288}
    \/ c \in 8192..8202

NonSpaces(s) == {i \in 1..Len(s) : ~IsSpace(s[i])}

Strip(s) ==
    IF NonSpaces(s) = {} THEN <<>>
    ELSE SubSeq(s, CHOOSE i \in NonSpaces(s) : \A j \in NonSpaces(s) : i <= j,
                   CHOOSE i \in NonSpaces(s) : \A j \in NonSpaces(s) : i >= j)

(***************************************************************************)
(* ECGUploadHandler.detect_file_type                                       *)
(***************************************************************************)
MIN_LEN == 10          \* len(data) < 10
LE_PROBE == 20         \* data[:20]
UTF16_PREFIX == 200    \* data[:200]
HTML_PREFIX == 1000    \* data[:1000]
JSON_PREFIX == 100     \* data[:100]

\* '<?xml' in text or '<restingecgdata' in text
HasXmlMarker(text) == Contains(text, XML_DECL) \/ Contains(text, ECG_ROOT)

\* The UTF-16 LE rule, with its extra test on the raw bytes.
Utf16LeRule(data) ==
    /\ Take(data, 2) = BOM_LE
    /\ 60 \in {Take(data, LE_PROBE)[i] : i \in 1..Min(LE_PROBE, Len(data))}
    /\ 63 \in {Take(data, LE_PROBE)[i] : i \in 1..Min(LE_PROBE, Len(data))}
    /\ HasXmlMarker(DecodeUtf16(Take(data, UTF16_PREFIX), FALSE, FALSE))

\* The UTF-16 BE rule.
Utf16BeRule(data) ==
    /\ Take(data, 2) = BOM_BE
    /\ HasXmlMarker(DecodeUtf16(Take(data, UTF16_PREFIX), TRUE, FALSE))

HtmlRule(data) ==
    \/ Contains(Lower(Take(data, HTML_PREFIX)), HTML_TAG)
    \/ Contains(Lower(Take(data, HTML_PREFIX)), DOCTYPE_TAG)

\* bytes.decode('utf-8', errors='replace'): U+FFFD stands where bytes were in
\* error.
DecodeUtf8Replace(b) ==
    SelectSeq([i \in 1..Len(b) |->
                  IF ~Utf8Starts(b, i) THEN -1
                  ELSE IF Utf8Complete(b, i) THEN Utf8Value(b, i, Utf8Need(b[i]))
                  ELSE 65533],
              IsCodePoint)

\* The JSON rule had the decoder been given errors='replace'.
JsonRule_Replace(data) ==
    LET text == Strip(DecodeUtf8Replace(Take(data, JSON_PREFIX))) IN
    StartsWith(text, <<123>>) \/ StartsWith(text, <<91>>)

\* The JSON rule without the call of strip().
JsonRule_NoStrip(data) ==
    LET text == DecodeUtf8(Take(data, JSON_PREFIX), FALSE) IN
    StartsWith(text, <<123>>) \/ StartsWith(text, <<91>>)

\* data[:100].decode('utf-8', errors='ignore').strip() starts with { or [
JsonRule(data) ==
    LET text == Strip(DecodeUtf8(Take(data, JSON_PREFIX), FALSE)) IN
    StartsWith(text, <<123>>) \/ StartsWith(text, <<91>>)

\* The classifier without its test of the length.
detect_file_type_NoMinLen(data) ==
    IF Take(data, 4) = PDF_SIG THEN ".pdf"
    ELSE IF Take(data, 5) = XML_DECL THEN ".xml"
    ELSE IF Utf16LeRule(data) THEN ".xml"
    ELSE IF Utf16BeRule(data) THEN ".xml"
    ELSE IF HtmlRule(data) THEN ".html"
    ELSE IF JsonRule(data) THEN ".json"
    ELSE ".bin"

detect_file_type(data) ==
    IF Len(data) < MIN_LEN THEN ".bin"
    ELSE IF Take(data, 4) = PDF_SIG THEN ".pdf"
    ELSE IF Take(data, 5) = XML_DECL THEN ".xml"
    ELSE IF Utf16LeRule(data) THEN ".xml"
    ELSE IF Utf16BeRule(data) THEN ".xml"
    ELSE IF HtmlRule(data) THEN ".html"
    ELSE IF JsonRule(data) THEN ".json"
    ELSE ".bin"

(***************************************************************************)
(* base64.b64encode and base64.b64decode(s) with s a str (validate=False). *)
(***************************************************************************)
PAD == 61   \* '='

IsB64(c) == c \in 65..90 \/ c \in 97..122 \/ c \in 48..57 \/ c = 43 \/ c = 47

\* The 6-bit value of an alphabet character.
Sextet(c) ==
    IF c \in 65..90 THEN c - 65
    ELSE IF c \in 97..122 THEN c - 71
    ELSE IF c \in 48..57 THEN c + 4
    ELSE IF c = 43 THEN 62
    ELSE 63

\* The alphabet character of a 6-bit value.
B64Char(v) ==
    IF v < 26 THEN v + 65
    ELSE IF v < 52 THEN v + 71
    ELSE IF v < 62 THEN v - 4
    ELSE IF v = 62 THEN 43
    ELSE 47

\* The byte at position i, 0 behind the end (the zero bits of a last group).
ByteOrZero(b, i) == IF i <= Len(b) THEN b[i] ELSE 0

\* Character k (1..4) of the group that encodes bytes 3g+1 .. 3g+3.
EncodeChar(b, g, k) ==
    LET x == ByteOrZero(b, 3 * g + 1)
        y == ByteOrZero(b, 3 * g + 2)
        z == ByteOrZero(b, 3 * g + 3)
        have == Len(b) - 3 * g      \* bytes the group really holds
    IN  IF k = 1 THEN B64Char(x \div 4)
        ELSE IF k = 2 THEN B64Char((x % 4) * 16 + y \div 16)
        ELSE IF k = 3 THEN
            IF have < 2 THEN PAD ELSE B64Char((y % 16) * 4 + z \div 64)
        ELSE
            IF have < 3 THEN PAD ELSE B64Char(z % 64)

b64encode(b) ==
    [i \in 1..(4 * ((Len(b) + 2) \div 3)) |->
        EncodeChar(b, (i - 1) \div 4, ((i - 1) % 4) + 1)]

\* binascii.a2b_base64 reads the characters left to right.  Characters
\* outside the alphabet are skipped.  quad_pos is the number of alphabet
\* characters read so far modulo 4; pads counts the '=' met since the last
\* alphabet character.
QuadPos(s, i) == Cardinality({j \in 1..(i - 1) : IsB64(s[j])}) % 4

Pads(s, i) ==
    Cardinality({j \in 1..i : s[j] = PAD /\ \A k \in j..i : ~IsB64(s[k])})

\* The positions of a '=' that completes a group: decoding stops there and
\* whatever follows is not looked at.
PadStops(s) ==
    {i \in 1..Len(s) : s[i] = PAD /\ QuadPos(s, i) >= 2 /\ QuadPos(s, i) + Pads(s, i) >= 4}

\* The 6-bit values that are decoded.
Sextets(s) ==
    LET stop == IF PadStops(s) = {} THEN Len(s) + 1
                ELSE CHOOSE i \in PadStops(s) : \A j \in PadStops(s) : i <= j
        kept == SelectSeq(SubSeq(s, 1, stop - 1), IsB64)
    IN  [i \in 1..Len(kept) |-> Sextet(kept[i])]

\* Byte k of the decoded output.
DecodeByte(d, k) ==
    LET g == 4 * ((k - 1) \div 3)
        r == (k - 1) % 3
    IN  IF r = 0 THEN d[g + 1] * 4 + d[g + 2] \div 16
        ELSE IF r = 1 THEN (d[g + 2] % 16) * 16 + d[g + 3] \div 4
        ELSE (d[g + 3] % 4) * 64 + d[g + 4]

b64decode(s) ==
    IF \E i \in 1..Len(s) : s[i] > 127 THEN
        \* ValueError: string argument should contain only ASCII characters
        Raised
    ELSE IF PadStops(s) = {} /\ Len(Sextets(s)) % 4 # 0 THEN
        \* binascii.Error: incorrect padding, or one character too many
        Raised
    ELSE
        LET d == Sextets(s)
            n == 3 * (Len(d) \div 4)
                   + (IF Len(d) % 4 = 2 THEN 1 ELSE IF Len(d) % 4 = 3 THEN 2 ELSE 0)
        IN  [k \in 1..n |-> DecodeByte(d, k)]

(***************************************************************************)
(* xml.etree.ElementTree.fromstring(text) and Element.find('.//StudyData') *)
(* on the part of XML the inputs are written in: an optional byte order    *)
(* mark, an optional declaration <?xml version="1.0"?>, elements with      *)
(* ASCII names and at most an xmlns="..." attribute, character data        *)
(* without references.  Anything else is reported as not well-formed.      *)
(*                                                                         *)
(* A parsed document is the sequence of its tokens in document order.      *)
(***************************************************************************)
LT == 60        \* '<'
GT == 62        \* '>'
SLASH == 47     \* '/'
QUOTE == 34     \* '"'
ZWNBSP == 65279 \* U+FEFF, the decoded byte order mark

XML_DECL_FULL ==   \* '<?xml version="1.0"?>'
    <<60, 63, 120, 109, 108, 32, 118, 101, 114, 115, 105, 111, 110, 61,
      34, 49, 46, 48, 34, 63, 62>>
XMLNS_EQ == <<120, 109, 108, 110, 115, 61, 34>>   \* 'xmlns="'

IsXmlSpace(c) == c \in {9, 10, 13, 32}
IsNameStart(c) == c \in 65..90 \/ c \in 97..122 \/ c = 95
IsNameChar(c) == IsNameStart(c) \/ c \in 48..57 \/ c = 45 \/ c = 46
\* A character that may stand in character data as it is.
IsCharData(c) == (c >= 32 \/ c \in {9, 10, 13}) /\ c # LT /\ c # 38

\* The first position >= i of s where c stands, 0 if there is none.
IndexFrom(s, c, i) ==
    IF \E j \in i..Len(s) : s[j] = c
    THEN CHOOSE j \in i..Len(s) : s[j] = c /\ \A k \in i..(j - 1) : s[k] # c
    ELSE 0

\* The length of the longest prefix of x made of name characters.
NameLen(x) ==
    IF \E j \in 1..Len(x) : ~IsNameChar(x[j])
    THEN (CHOOSE j \in 1..Len(x) : ~IsNameChar(x[j]) /\ \A k \in 1..(j - 1) : IsNameChar(x[k])) - 1
    ELSE Len(x)

AllSpace(x) == \A j \in 1..Len(x) : IsXmlSpace(x[j])

\* x with its leading XML white space removed.
SkipSpace(x) ==
    IF AllSpace(x) THEN <<>>
    ELSE SubSeq(x, CHOOSE j \in 1..Len(x) : ~IsXmlSpace(x[j]) /\ AllSpace(SubSeq(x, 1, j - 1)),
                Len(x))

\* What follows the name in a start tag: nothing but white space, or white
\* space, xmlns="uri" and white space.
AttrsOk(rest) ==
    \/ AllSpace(rest)
    \/ /\ rest # <<>> /\ IsXmlSpace(rest[1])
       /\ StartsWith(SkipSpace(rest), XMLNS_EQ)
       /\ LET after == Drop(SkipSpace(rest), Len(XMLNS_EQ))
              q == IndexFrom(after, QUOTE, 1)
          IN  /\ q > 0
              /\ \A j \in 1..(q - 1) : IsCharData(after[j])
              /\ AllSpace(Drop(after, q))

HasXmlns(rest) == ~AllSpace(rest)

XmlnsValue(rest) ==
    LET after == Drop(SkipSpace(rest), Len(XMLNS_EQ)) IN
    SubSeq(after, 1, IndexFrom(after, QUOTE, 1) - 1)

\* The token of a tag whose text between '<' and '>' is inner.
TagToken(inner) ==
    LET closing == inner # <<>> /\ inner[1] = SLASH
        empty == ~closing /\ inner # <<>> /\ inner[Len(inner)] = SLASH
        body == IF closing THEN Tail(inner)
                ELSE IF empty THEN SubSeq(inner, 1, Len(inner) - 1)
                ELSE inner
        n == NameLen(body)
        rest == Drop(body, n)
    IN  [ ok    |-> /\ n > 0 /\ IsNameStart(body[1])
                    /\ IF closing THEN AllSpace(rest) ELSE AttrsOk(rest),
          kind  |-> IF closing THEN "close" ELSE IF empty THEN "empty" ELSE "open",
          name  |-> SubSeq(body, 1, n),
          hasNs |-> ~closing /\ HasXmlns(rest) /\ AttrsOk(rest),
          ns    |-> IF ~closing /\ HasXmlns(rest) /\ AttrsOk(rest)
                    THEN XmlnsValue(rest) ELSE <<>>,
          text  |-> <<>> ]

TextToken(t) ==
    [ ok    |-> \A j \in 1..Len(t) : IsCharData(t[j]),
      kind  |-> "text", name |-> <<>>, hasNs |-> FALSE, ns |-> <<>>,
      text  |-> t ]

\* The tokens of s from position i on.
RECURSIVE Tokens(_, _)
Tokens(s, i) ==
    IF i > Len(s) THEN [ok |-> TRUE, toks |-> <<>>]
    ELSE IF s[i] = LT THEN
        LET j == IndexFrom(s, GT, i + 1) IN
        IF j = 0 THEN [ok |-> FALSE, toks |-> <<>>]
        ELSE
            LET tok == TagToken(SubSeq(s, i + 1, j - 1))
                more == Tokens(s, j + 1)
            IN  [ok |-> tok.ok /\ more.ok, toks |-> <<tok>> \o more.toks]
    ELSE
        LET j == IndexFrom(s, LT, i)
            end == IF j = 0 THEN Len(s) ELSE j - 1
            tok == TextToken(SubSeq(s, i, end))
            more == Tokens(s, end + 1)
        IN  [ok |-> tok.ok /\ more.ok, toks |-> <<tok>> \o more.toks]

\* The names of the elements open before token k, innermost last: the start
\* tags among tokens 1..k-1 that no end tag has closed yet.
RECURSIVE OpenAt(_, _)
OpenAt(toks, k) ==
    IF k <= 1 THEN <<>>
    ELSE
        LET before == OpenAt(toks, k - 1)
            t == toks[k - 1]
        IN  IF t.kind = "open" THEN Append(before, k - 1)
            ELSE IF t.kind = "close" /\ before # <<>>
                THEN SubSeq(before, 1, Len(before) - 1)
            ELSE before

\* Well-formedness of the token sequence: end tags match the open start tag,
\* there is exactly one root element, nothing but white space outside it.
WellFormed(toks) ==
    /\ \E k \in 1..Len(toks) : toks[k].kind \in {"open", "empty"}
    /\ OpenAt(toks, Len(toks) + 1) = <<>>
    /\ \A k \in 1..Len(toks) :
        LET open == OpenAt(toks, k)
            t == toks[k]
            rootSeen == \E j \in 1..(k - 1) : toks[j].kind \in {"open", "empty"}
        IN  /\ t.kind = "close" =>
                open # <<>> /\ toks[open[Len(open)]].name = t.name
            /\ (t.kind = "text" /\ open = <<>>) => AllSpace(t.text)
            /\ (t.kind \in {"open", "empty"} /\ open = <<>>) => ~rootSeen

ParseXML(text) ==
    LET noBom == IF text # <<>> /\ text[1] = ZWNBSP THEN Tail(text) ELSE text
        body == IF StartsWith(noBom, XML_DECL_FULL)
                THEN Drop(noBom, Len(XML_DECL_FULL)) ELSE noBom
        r == Tokens(body, 1)
    IN  IF r.ok /\ WellFormed(r.toks) THEN r ELSE [ok |-> FALSE, toks |-> <<>>]

\* The default namespace in force for the element that starts at token k: the
\* innermost xmlns declaration on it or on an element around it.
NamespaceOf(toks, k) ==
    LET chain == Append(OpenAt(toks, k), k)
        decl == {j \in 1..Len(chain) : toks[chain[j]].hasNs}
    IN  IF decl = {} THEN <<>>
        ELSE toks[chain[CHOOSE j \in decl : \A m \in decl : m <= j]].ns

\* root.find('.//StudyData'): the first element below the root, in document
\* order, whose tag is 'StudyData'.  The tag of an element in a namespace is
\* '{uri}StudyData', which is another tag.  0 stands for None.
FindStudyData(toks) ==
    LET hits == {k \in 1..Len(toks) :
                    /\ toks[k].kind \in {"open", "empty"}
                    /\ OpenAt(toks, k) # <<>>
                    /\ toks[k].name = STUDY_DATA
                    /\ NamespaceOf(toks, k) = <<>>}
    IN  IF hits = {} THEN 0 ELSE CHOOSE k \in hits : \A j \in hits : k <= j

\* Element.text: the character data between the start tag and the first
\* child or the end tag; the empty text stands for None and for ''.
ElementText(toks, k) ==
    IF toks[k].kind = "open" /\ k < Len(toks) /\ toks[k + 1].kind = "text"
    THEN toks[k + 1].text ELSE <<>>

(***************************************************************************)
(* ECGUploadHandler.extract_pdf_from_xml                                   *)
(***************************************************************************)
\* The text of the document, decoded as the first two bytes say.
DecodeXml(xml_data) ==
    IF Take(xml_data, 2) = BOM_LE THEN DecodeUtf16(xml_data, FALSE, TRUE)
    ELSE IF Take(xml_data, 2) = BOM_BE THEN DecodeUtf16(xml_data, TRUE, TRUE)
    ELSE DecodeUtf8(xml_data, TRUE)

\* The base64 text decoded without a look at its first characters or at the
\* first bytes of the result.
DecodePdf_Unchecked(pdf_data) == b64decode(pdf_data)

\* The base64 text is decoded once it starts with 'JVBERi'; the bytes are
\* returned when they start with b'%PDF'.
DecodePdf(pdf_data) ==
    IF StartsWith(pdf_data, B64_PDF_PREFIX) THEN
        LET pdf_bytes == b64decode(pdf_data) IN
        IF pdf_bytes = Raised THEN Raised
        ELSE IF StartsWith(pdf_bytes, PDF_SIG) THEN pdf_bytes
        ELSE None
    ELSE None

\* The body of the try statement: the bytes of the PDF, None, or Raised.
ExtractBody(xml_data) ==
    LET xml_content == DecodeXml(xml_data) IN
    IF xml_content = Raised THEN Raised
    ELSE
        LET root == ParseXML(xml_content) IN
        IF ~root.ok THEN Raised
        ELSE
            LET study_data == FindStudyData(root.toks) IN
            IF study_data # 0 /\ Strip(ElementText(root.toks, study_data)) # <<>>
            THEN DecodePdf(Strip(ElementText(root.toks, study_data)))
            ELSE None

\* The body without its except clause: what is raised leaves the function.
extract_pdf_from_xml_NoCatch(xml_data) == ExtractBody(xml_data)

\* except Exception: return None
extract_pdf_from_xml(xml_data) ==
    IF ExtractBody(xml_data) = Raised THEN None ELSE ExtractBody(xml_data)

(***************************************************************************)
(* extract_ecg_pdf.extract_pdf_from_ecg_xml, on the bytes read from the    *)
(* file.  Each step has a try statement of its own.                        *)
(***************************************************************************)
extract_pdf_from_ecg_xml(data) ==
    LET xml_content == DecodeXml(data) IN
    IF xml_content = Raised THEN None            \* "Error decoding XML"
    ELSE
        LET root == ParseXML(xml_content) IN
        IF ~root.ok THEN None                    \* "Error parsing XML"
        ELSE
            LET study_data == FindStudyData(root.toks) IN
            IF study_data # 0 /\ Strip(ElementText(root.toks, study_data)) # <<>>
            THEN
                LET pdf_data == Strip(ElementText(root.toks, study_data)) IN
                IF StartsWith(pdf_data, B64_PDF_PREFIX) THEN
                    LET pdf_bytes == b64decode(pdf_data) IN
                    IF pdf_bytes = Raised THEN None      \* "Error decoding base64"
                    ELSE IF StartsWith(pdf_bytes, PDF_SIG) THEN pdf_bytes
                    ELSE None
                ELSE None
            ELSE None

(***************************************************************************)
(* ECGUploadHandler.check_auth.  A header that is not sent is the empty    *)
(* text.                                                                   *)
(***************************************************************************)
ABSENT == <<>>
USERNAME == <<97, 100, 109, 105, 110>>                  \* "admin"
PASSWORD == <<97, 100, 109, 105, 110, 49, 50, 51>>      \* "admin123"
BASIC == <<98, 97, 115, 105, 99>>                       \* 'basic'
SPACE == 32
COLON == 58
DOT == 46

\* decoded.split(':', 1) gives the user name and the password.
UserPass(decoded) ==
    IF decoded = Raised THEN FALSE
    ELSE IF IndexFrom(decoded, COLON, 1) = 0 THEN FALSE
    ELSE /\ SubSeq(decoded, 1, IndexFrom(decoded, COLON, 1) - 1) = USERNAME
         /\ SubSeq(decoded, IndexFrom(decoded, COLON, 1) + 1, Len(decoded)) = PASSWORD

\* base64.b64decode(credentials).decode('utf-8')
DecodeCredentials(raw) ==
    IF raw = Raised THEN Raised ELSE DecodeUtf8(raw, TRUE)

\* check_auth without its look at the scheme.
check_auth_AnyScheme(auth_header) ==
    IF auth_header = ABSENT THEN FALSE
    ELSE IF IndexFrom(auth_header, SPACE, 1) = 0 THEN FALSE
    ELSE UserPass(DecodeCredentials(b64decode(
            SubSeq(auth_header, IndexFrom(auth_header, SPACE, 1) + 1, Len(auth_header)))))

check_auth(auth_header) ==
    IF auth_header = ABSENT THEN FALSE
    \* auth_header.split(' ', 1) must give two parts
    ELSE IF IndexFrom(auth_header, SPACE, 1) = 0 THEN FALSE
    ELSE IF Lower(SubSeq(auth_header, 1, IndexFrom(auth_header, SPACE, 1) - 1)) # BASIC
    THEN FALSE
    \* any exception gives False
    ELSE UserPass(DecodeCredentials(b64decode(
            SubSeq(auth_header, IndexFrom(auth_header, SPACE, 1) + 1, Len(auth_header)))))

(***************************************************************************)
(* The name of the file: what do_POST and do_PUT make of the headers, the  *)
(* path and the clock.                                                     *)
(***************************************************************************)
FILENAME_EQ == <<102, 105, 108, 101, 110, 97, 109, 101, 61>>    \* 'filename='
UPLOAD_PREFIX == <<101, 99, 103, 95, 117, 112, 108, 111, 97, 100, 95>>  \* 'ecg_upload_'
EXTRACTED_SUFFIX ==                                             \* '_extracted.pdf'
    <<95, 101, 120, 116, 114, 97, 99, 116, 101, 100, 46, 112, 100, 102>>

\* The tag as the characters of a file name.
ExtChars(t) ==
    IF t = ".pdf" THEN <<46, 112, 100, 102>>
    ELSE IF t = ".xml" THEN <<46, 120, 109, 108>>
    ELSE IF t = ".html" THEN <<46, 104, 116, 109, 108>>
    ELSE IF t = ".json" THEN <<46, 106, 115, 111, 110>>
    ELSE <<46, 98, 105, 110>>

\* The last position of s where c stands, 0 if there is none.
LastIndex(s, c) ==
    IF \E j \in 1..Len(s) : s[j] = c
    THEN CHOOSE j \in 1..Len(s) : s[j] = c /\ \A k \in (j + 1)..Len(s) : s[k] # c
    ELSE 0

\* s.strip(c)
StripChar(s, c) ==
    IF \A j \in 1..Len(s) : s[j] = c THEN <<>>
    ELSE SubSeq(s,
                CHOOSE j \in 1..Len(s) : s[j] # c /\ \A k \in 1..(j - 1) : s[k] = c,
                CHOOSE j \in 1..Len(s) : s[j] # c /\ \A k \in (j + 1)..Len(s) : s[k] = c)

\* The first position >= i where p starts in s, 0 if there is none.
FindFrom(s, p, i) ==
    IF \E j \in i..(Len(s) - Len(p) + 1) : SubSeq(s, j, j + Len(p) - 1) = p
    THEN CHOOSE j \in i..(Len(s) - Len(p) + 1) :
            /\ SubSeq(s, j, j + Len(p) - 1) = p
            /\ \A k \in i..(j - 1) : SubSeq(s, k, k + Len(p) - 1) # p
    ELSE 0

\* content_disp.split('filename=')[1].strip('"'); the empty text when the
\* header is not sent or holds no 'filename='.
DispositionName(content_disp) ==
    IF ~Contains(content_disp, FILENAME_EQ) THEN <<>>
    ELSE
        LET from == FindFrom(content_disp, FILENAME_EQ, 1) + Len(FILENAME_EQ)
            next == FindFrom(content_disp, FILENAME_EQ, from)
            to == IF next = 0 THEN Len(content_disp) ELSE next - 1
        IN  StripChar(SubSeq(content_disp, from, to), QUOTE)

\* self.path.strip('/').split('/')[-1]
PathName(path) ==
    LET stripped == StripChar(path, SLASH) IN
    SubSeq(stripped, LastIndex(stripped, SLASH) + 1, Len(stripped))

\* os.path.basename(self.path)
basename(path) == SubSeq(path, LastIndex(path, SLASH) + 1, Len(path))

\* os.path.splitext(p)[0]: p without its last extension; a dot that has only
\* dots between it and the start of the last path component is no extension.
splitext(p) ==
    LET sep == LastIndex(p, SLASH)
        dot == LastIndex(p, DOT)
    IN  IF dot > sep /\ \E i \in (sep + 1)..(dot - 1) : p[i] # DOT
        THEN SubSeq(p, 1, dot - 1)
        ELSE p

\* A timestamp that does not follow the clock.
Timestamp_Frozen(t) ==
    <<50, 48, 50, 54, 48, 49, 48, 49, 95, 48, 48, 48, 48, 48, 48>>

\* datetime.now().strftime("%Y%m%d_%H%M%S") with the clock at t seconds past
\* 2026-01-01 00:00:00 (t < 60).
Timestamp(t) ==
    <<50, 48, 50, 54, 48, 49, 48, 49, 95, 48, 48, 48, 48>>
        \o <<48 + (t \div 10), 48 + (t % 10)>>

\* The file name do_POST starts from.
PostFilename(r, t) ==
    IF DispositionName(r.disposition) # <<>> THEN DispositionName(r.disposition)
    ELSE IF PathName(r.path) # <<>> THEN PathName(r.path)
    ELSE UPLOAD_PREFIX \o Timestamp(t)

\* The file name do_PUT starts from.
PutFilename(r, t) ==
    IF basename(r.path) = <<>> \/ basename(r.path) = <<SLASH>>
    THEN UPLOAD_PREFIX \o Timestamp(t)
    ELSE basename(r.path)

\* open(filepath, 'wb') and f.write(data): the file is created or replaced.
WriteFile(fs, name, data) ==
    [n \in (DOMAIN fs) \cup {name} |-> IF n = name THEN data ELSE fs[n]]

(***************************************************************************)
(* Inputs of the classifier: byte strings assembled from the fragments the *)
(* rules look for, with or without a filler that lifts them over the       *)
(* minimum length, and byte strings that sit on the limits of the prefixes *)
(* the rules read.                                                         *)
(***************************************************************************)
MaxChunks == 3

XML_DECL_LE == <<60, 0, 63, 0, 120, 0, 109, 0, 108, 0>>     \* '<?xml' in UTF-16 LE
XML_DECL_BE == <<0, 60, 0, 63, 0, 120, 0, 109, 0, 108>>     \* '<?xml' in UTF-16 BE
ECG_ROOT_LE == [i \in 1..30 |-> IF i % 2 = 1 THEN ECG_ROOT[(i + 1) \div 2] ELSE 0]
ECG_ROOT_BE == [i \in 1..30 |-> IF i % 2 = 0 THEN ECG_ROOT[i \div 2] ELSE 0]
FILLER == <<97, 98, 99, 100, 101, 102, 103, 104, 105, 106>> \* b'abcdefghij'

Chunks ==
    { PDF_SIG, XML_DECL, BOM_LE, BOM_BE, XML_DECL_LE, XML_DECL_BE,
      ECG_ROOT_LE, ECG_ROOT_BE,
      <<60, 72, 84, 77, 76>>,       \* b'<HTML'
      <<123>>,                      \* b'{'
      <<91>>,                       \* b'['
      <<32>>,                       \* b' '
      <<255>> }                     \* an invalid UTF-8 byte

RECURSIVE Concat(_)
Concat(ss) == IF ss = <<>> THEN <<>> ELSE Head(ss) \o Concat(Tail(ss))

ChunkInputs ==
    { Concat(cs) \o pad :
        cs \in UNION { [1..k -> Chunks] : k \in 0..MaxChunks },
        pad \in { <<>>, FILLER } }

LimitInputs ==
    { \* '{' as the 100th byte and as the 101st
      Repeat(32, JSON_PREFIX - 1) \o <<123>>,
      Repeat(32, JSON_PREFIX) \o <<123>>,
      \* '<?xml' ending at the 200th byte and at the 202nd
      BOM_LE \o <<60, 0, 63, 0>> \o Repeat(0, UTF16_PREFIX - 16) \o XML_DECL_LE,
      BOM_LE \o <<60, 0, 63, 0>> \o Repeat(0, UTF16_PREFIX - 14) \o XML_DECL_LE,
      BOM_BE \o Repeat(0, UTF16_PREFIX - 12) \o XML_DECL_BE,
      BOM_BE \o Repeat(0, UTF16_PREFIX - 10) \o XML_DECL_BE,
      \* '<' and '?' inside and outside the first 20 bytes
      BOM_LE \o Repeat(0, LE_PROBE - 6) \o XML_DECL_LE,
      BOM_LE \o Repeat(0, LE_PROBE - 4) \o XML_DECL_LE,
      \* '<html' ending at the 1000th byte and at the 1001st
      Repeat(97, HTML_PREFIX - 5) \o HTML_TAG,
      Repeat(97, HTML_PREFIX - 4) \o HTML_TAG,
      \* b'{"a":1}'
      <<123, 34, 97, 34, 58, 49, 125>>,
      \* a lone surrogate in front of the marker, a stray last byte
      BOM_LE \o <<0, 220>> \o XML_DECL_LE \o <<0>>,
      BOM_BE \o <<216, 0>> \o XML_DECL_BE \o <<0>>,
      \* a two-byte UTF-8 character that is whitespace, then '['
      <<194, 160, 91>> \o FILLER,
      \* a UTF-8 lead byte without its continuation, then '{'
      <<195, 123>> \o FILLER,
      <<226, 130, 123>> \o FILLER }

ClassifyInputs == ChunkInputs \cup LimitInputs

(***************************************************************************)
(* The classifier applied to one input.                                    *)
(***************************************************************************)
InitClassify ==
    /\ arg \in ClassifyInputs
    /\ fn = ""
    /\ tag = ""
    /\ pdf = NotCalled
    /\ files = <<>>
    /\ now = 0
    /\ served = 0
    /\ last = NoRequest

Classify ==
    /\ fn = ""
    /\ fn' = "detect_file_type"
    /\ tag' = detect_file_type(arg)
    /\ UNCHANGED <<arg, pdf, files, now, served, last>>

NextClassify == Classify

SpecClassify == InitClassify /\ [][NextClassify]_vars

(***************************************************************************)
(* Inputs of the extractor.                                                *)
(***************************************************************************)
MaxTail == 3
MaxParts == 3

\* Bytes that may follow the signature of a PDF.
TailBytes == {45, 0, 49, 255}      \* b'-', NUL, b'1', 0xFF

Tails == UNION { [1..k -> TailBytes] : k \in 0..MaxTail }

\* Byte strings that start with b'%PDF'.
PdfBodies == { PDF_SIG \o t \o f : t \in Tails, f \in { <<>>, FILLER } }

OPEN_ROOT == <<60, 82, 111, 111, 116, 62>>                               \* <Root>
CLOSE_ROOT == <<60, 47, 82, 111, 111, 116, 62>>                          \* </Root>
OPEN_ROOT_NS ==                                                          \* <Root xmlns="urn:ecg">
    <<60, 82, 111, 111, 116, 32, 120, 109, 108, 110, 115, 61, 34, 117, 114, 110,
      58, 101, 99, 103, 34, 62>>
OPEN_SD == <<60, 83, 116, 117, 100, 121, 68, 97, 116, 97, 62>>           \* <StudyData>
CLOSE_SD == <<60, 47, 83, 116, 117, 100, 121, 68, 97, 116, 97, 62>>      \* </StudyData>
OPEN_SD_NS ==                                                            \* <StudyData xmlns="urn:ecg">
    <<60, 83, 116, 117, 100, 121, 68, 97, 116, 97, 32, 120, 109, 108, 110, 115,
      61, 34, 117, 114, 110, 58, 101, 99, 103, 34, 62>>
OPEN_SD_NONS ==                                                          \* <StudyData xmlns="">
    <<60, 83, 116, 117, 100, 121, 68, 97, 116, 97, 32, 120, 109, 108, 110, 115,
      61, 34, 34, 62>>
EMPTY_SD == <<60, 83, 116, 117, 100, 121, 68, 97, 116, 97, 47, 62>>      \* <StudyData/>
OPEN_LOWER == <<60, 115, 116, 117, 100, 121, 100, 97, 116, 97, 62>>      \* <studydata>
CLOSE_LOWER == <<60, 47, 115, 116, 117, 100, 121, 100, 97, 116, 97, 62>> \* </studydata>
OPEN_A == <<60, 65, 62>>                                                 \* <A>
OPEN_A_NS == <<60, 65, 32, 120, 109, 108, 110, 115, 61, 34, 117, 114, 110, 58, 101, 99, 103, 34, 62>>  \* <A xmlns="urn:ecg">
CLOSE_A == <<60, 47, 65, 62>>                                            \* </A>
EMPTY_A == <<60, 65, 47, 62>>                                            \* <A/>
B64_MIN == <<74, 86, 66, 69, 82, 105, 48, 120, 76, 106, 81, 61>>         \* JVBERi0xLjQ= (b'%PDF-1.4')
B64_OTHER == <<65, 65, 65, 65>>                                          \* AAAA

\* The document of the round trip:
\* <?xml version="1.0"?><Root><StudyData> base64(p) </StudyData></Root>
Wrap(p) ==
    XML_DECL_FULL \o OPEN_ROOT \o OPEN_SD \o b64encode(p) \o CLOSE_SD \o CLOSE_ROOT

RoundTripDocs == { Wrap(p) : p \in PdfBodies }

\* Texts of a StudyData element, put together from pieces of base64 text and
\* from characters that are no base64.
Parts ==
    { B64_PDF_PREFIX,            \* JVBERi
      <<48, 120>>,               \* 0x
      <<76, 106, 81, 61>>,       \* LjQ=
      <<61>>,                    \* =
      <<33>>,                    \* !
      <<32>>,                    \* a blank
      <<195, 169>>,              \* U+00E9 in UTF-8
      <<255>> }                  \* no UTF-8

PartTexts == { Concat(ps) : ps \in UNION { [1..k -> Parts] : k \in 0..MaxParts } }

\* <Root><StudyData> text </StudyData></Root>
InRoot(text) == OPEN_ROOT \o OPEN_SD \o text \o CLOSE_SD \o CLOSE_ROOT

TextDocs == { InRoot(t) : t \in PartTexts }

\* Places a StudyData element can have in a document: what stands before its
\* text and what stands behind it.
Frames ==
    { \* the root element itself
      <<OPEN_SD, CLOSE_SD>>,
      \* a child of the root
      <<OPEN_ROOT \o OPEN_SD, CLOSE_SD \o CLOSE_ROOT>>,
      \* two levels down
      <<OPEN_ROOT \o OPEN_A \o OPEN_SD, CLOSE_SD \o CLOSE_A \o CLOSE_ROOT>>,
      \* under a default namespace declared on the root
      <<OPEN_ROOT_NS \o OPEN_SD, CLOSE_SD \o CLOSE_ROOT>>,
      \* in a namespace of its own
      <<OPEN_ROOT \o OPEN_SD_NS, CLOSE_SD \o CLOSE_ROOT>>,
      \* taken out of the root's default namespace again
      <<OPEN_ROOT_NS \o OPEN_SD_NONS, CLOSE_SD \o CLOSE_ROOT>>,
      \* behind an empty StudyData element
      <<OPEN_ROOT \o EMPTY_SD \o OPEN_SD, CLOSE_SD \o CLOSE_ROOT>>,
      \* behind a StudyData element that is in a namespace
      <<OPEN_ROOT \o OPEN_A_NS \o OPEN_SD \o B64_OTHER \o CLOSE_SD \o CLOSE_A \o OPEN_SD,
        CLOSE_SD \o CLOSE_ROOT>>,
      \* behind another element
      <<OPEN_ROOT \o EMPTY_A \o <<10>> \o OPEN_SD, CLOSE_SD \o CLOSE_ROOT>>,
      \* behind a child of the StudyData element
      <<OPEN_ROOT \o OPEN_SD \o EMPTY_A, CLOSE_SD \o CLOSE_ROOT>>,
      \* spelled in lower case
      <<OPEN_ROOT \o OPEN_LOWER, CLOSE_LOWER \o CLOSE_ROOT>>,
      \* no StudyData element
      <<OPEN_ROOT \o OPEN_A, CLOSE_A \o CLOSE_ROOT>>,
      \* not well-formed: root not closed, tags crossed, a second root, text
      \* in front of the root
      <<OPEN_ROOT \o OPEN_SD, CLOSE_SD>>,
      <<OPEN_ROOT \o OPEN_SD, CLOSE_ROOT \o CLOSE_SD>>,
      <<OPEN_ROOT \o OPEN_SD, CLOSE_SD \o CLOSE_ROOT \o EMPTY_A>>,
      <<<<120>> \o OPEN_ROOT \o OPEN_SD, CLOSE_SD \o CLOSE_ROOT>> }

FrameTexts ==
    { B64_MIN,
      <<32, 10>> \o B64_MIN \o <<10>>,               \* white space around it
      b64encode(PDF_SIG \o <<45>> \o FILLER),          \* a PDF of 15 bytes
      b64encode(PDF_SIG),                              \* JVBERg==
      SubSeq(B64_MIN, 1, 7),                           \* JVBERi0: padding missing
      B64_OTHER,
      <<32, 32>>,
      <<>> }

\* The byte string of an ASCII text in UTF-8, in UTF-16 LE and in UTF-16 BE
\* (with byte order mark), and the UTF-16 forms with a stray byte behind.
Encode16(t, bigEndian) ==
    [i \in 1..(2 * Len(t)) |->
        IF (i % 2 = 0) = bigEndian THEN t[(i + 1) \div 2] ELSE 0]

Encodings(t) ==
    { t,
      BOM_LE \o Encode16(t, FALSE),
      BOM_BE \o Encode16(t, TRUE),
      BOM_LE \o Encode16(t, FALSE) \o <<0>>,
      BOM_BE \o Encode16(t, TRUE) \o <<0>> }

FrameDocs ==
    UNION { Encodings(d) :
        d \in UNION { { f[1] \o t \o f[2], XML_DECL_FULL \o f[1] \o t \o f[2] } :
                        f \in Frames, t \in FrameTexts } }

ExtractInputs == RoundTripDocs \cup TextDocs \cup FrameDocs

(***************************************************************************)
(* The extractor, of the server and of the script, applied to one input.   *)
(***************************************************************************)
InitExtract ==
    /\ arg \in ExtractInputs
    /\ fn = ""
    /\ tag = ""
    /\ pdf = NotCalled
    /\ files = <<>>
    /\ now = 0
    /\ served = 0
    /\ last = NoRequest

ExtractInServer ==
    /\ fn = ""
    /\ fn' = "extract_pdf_from_xml"
    /\ pdf' = extract_pdf_from_xml(arg)
    /\ UNCHANGED <<arg, tag, files, now, served, last>>

ExtractInScript ==
    /\ fn = ""
    /\ fn' = "extract_pdf_from_ecg_xml"
    /\ pdf' = extract_pdf_from_ecg_xml(arg)
    /\ UNCHANGED <<arg, tag, files, now, served, last>>

NextExtract == ExtractInServer \/ ExtractInScript

SpecExtract == InitExtract /\ [][NextExtract]_vars

(***************************************************************************)
(* Requests.  The headers are varied on one upload; the uploads are varied *)
(* in name and body under the right credentials.                           *)
(***************************************************************************)
MaxRequests == 2
MaxClock == 1

AUTH_OK ==          \* 'Basic YWRtaW46YWRtaW4xMjM=' (admin:admin123)
    <<66, 97, 115, 105, 99, 32, 89, 87, 82, 116, 97, 87, 52, 54, 89, 87, 82, 116,
      97, 87, 52, 120, 77, 106, 77, 61>>
AUTH_UPPER ==       \* 'BASIC YWRtaW46YWRtaW4xMjM='
    <<66, 65, 83, 73, 67, 32, 89, 87, 82, 116, 97, 87, 52, 54, 89, 87, 82, 116,
      97, 87, 52, 120, 77, 106, 77, 61>>
AUTH_WRONG ==       \* 'Basic YWRtaW46d3Jvbmc=' (admin:wrong)
    <<66, 97, 115, 105, 99, 32, 89, 87, 82, 116, 97, 87, 52, 54, 100, 51, 74, 118,
      98, 109, 99, 61>>
AUTH_BEARER ==      \* 'Bearer YWRtaW46YWRtaW4xMjM='
    <<66, 101, 97, 114, 101, 114, 32, 89, 87, 82, 116, 97, 87, 52, 54, 89, 87, 82,
      116, 97, 87, 52, 120, 77, 106, 77, 61>>
AUTH_NO_CRED ==     \* 'Basic'
    <<66, 97, 115, 105, 99>>
AUTH_BAD_B64 ==     \* 'Basic YWRtaW4' (padding missing)
    <<66, 97, 115, 105, 99, 32, 89, 87, 82, 116, 97, 87, 52>>
AUTH_NO_COLON ==    \* 'Basic YWRtaW4=' (admin)
    <<66, 97, 115, 105, 99, 32, 89, 87, 82, 116, 97, 87, 52, 61>>

AUTH_JUNK ==        \* 'Basic YWRt!aW46YWRtaW4xMjM=' (a character outside the alphabet)
    <<66, 97, 115, 105, 99, 32, 89, 87, 82, 116, 33, 97, 87, 52, 54, 89, 87,
      82, 116, 97, 87, 52, 120, 77, 106, 77, 61>>
AUTH_TRAILING ==    \* 'Basic YWRtaW46YWRtaW4xMjM=junk' (text after the padding)
    <<66, 97, 115, 105, 99, 32, 89, 87, 82, 116, 97, 87, 52, 54, 89, 87, 82,
      116, 97, 87, 52, 120, 77, 106, 77, 61, 106, 117, 110, 107>>

AuthHeaders ==
    { ABSENT, AUTH_OK, AUTH_UPPER, AUTH_WRONG, AUTH_BEARER, AUTH_NO_CRED,
      AUTH_BAD_B64, AUTH_NO_COLON, AUTH_JUNK, AUTH_TRAILING }

\* The Content-Length header: not sent, 0, the length of the body, or text
\* that is no number.
ContentLengths == {"absent", "zero", "length", "garbage"}

Dispositions ==
    { ABSENT,
      \* 'attachment; filename="ecg1.dat"'
      <<97, 116, 116, 97, 99, 104, 109, 101, 110, 116, 59, 32, 102, 105, 108, 101,
        110, 97, 109, 101, 61, 34, 101, 99, 103, 49, 46, 100, 97, 116, 34>> }

ROOT_PATH == <<47>>                                             \* '/'
DIR_PATH == <<47, 117, 112, 108, 111, 97, 100, 47>>             \* '/upload/'
FILE_PATH ==                                                    \* '/upload/ecg2.xml'
    <<47, 117, 112, 108, 111, 97, 100, 47, 101, 99, 103, 50, 46, 120, 109, 108>>

Paths == {ROOT_PATH, DIR_PATH, FILE_PATH}

PDF_REPORT ==       \* b'%PDF-1.4 report'
    <<37, 80, 68, 70, 45, 49, 46, 52, 32, 114, 101, 112, 111, 114, 116>>

\* A document that carries a PDF.
XML_WITH_PDF == Wrap(PDF_REPORT)

\* A document without a StudyData element.
XML_NO_CARRIER == XML_DECL_FULL \o OPEN_ROOT \o OPEN_A \o CLOSE_A \o CLOSE_ROOT

Bodies ==
    { XML_WITH_PDF,
      \* the same in UTF-16 LE
      BOM_LE \o Encode16(XML_WITH_PDF, FALSE),
      \* XML whose extraction fails: no UTF-8, not well-formed, no StudyData,
      \* StudyData empty, text that is no 'JVBERi', base64 without its padding
      XML_DECL_FULL \o OPEN_ROOT \o <<255>> \o CLOSE_ROOT,
      XML_DECL_FULL \o OPEN_ROOT \o OPEN_SD \o B64_MIN \o CLOSE_SD,
      XML_NO_CARRIER,
      XML_DECL_FULL \o OPEN_ROOT \o OPEN_SD \o <<32>> \o CLOSE_SD \o CLOSE_ROOT,
      XML_DECL_FULL \o InRoot(B64_OTHER),
      XML_DECL_FULL \o InRoot(SubSeq(B64_MIN, 1, 7)),
      \* a PDF, JSON, and bytes of no known kind
      PDF_REPORT,
      <<123, 34, 104, 114, 34, 58, 32, 55, 50, 44, 32, 34, 111, 107, 34, 58, 32,
        116, 114, 117, 101, 125>>,                                  \* b'{"hr": 72, "ok": true}'
      <<0, 1, 2>> }

\* The credentials and the length are varied on one upload, the bodies under
\* one name, the names on two bodies; a second XML body comes without a name.
Requests ==
    [ auth : AuthHeaders, cl : {"length"}, disposition : {ABSENT},
      path : {ROOT_PATH}, body : {XML_WITH_PDF} ]
    \cup
    [ auth : {AUTH_OK, AUTH_WRONG}, cl : ContentLengths, disposition : {ABSENT},
      path : {ROOT_PATH}, body : {XML_WITH_PDF} ]
    \cup
    [ auth : {AUTH_OK}, cl : {"length"}, disposition : {ABSENT},
      path : {FILE_PATH}, body : Bodies ]
    \cup
    [ auth : {AUTH_OK}, cl : {"length"}, disposition : Dispositions,
      path : Paths, body : {XML_WITH_PDF, PDF_REPORT} ]
    \cup
    [ auth : {AUTH_OK}, cl : {"length"}, disposition : {ABSENT},
      path : {ROOT_PATH, DIR_PATH}, body : {XML_NO_CARRIER} ]

\* The values of the functions on the headers and on the bodies, computed
\* once.
Authorized == [a \in AuthHeaders |-> check_auth(a)]
Tagged == [b \in Bodies |-> detect_file_type(b)]
Extracted == [b \in Bodies |-> extract_pdf_from_xml(b)]

(***************************************************************************)
(* ECGUploadHandler.do_POST                                                *)
(***************************************************************************)
\* The response to a request that is not served: 401, 400, 500.
Refuse(method, status) ==
    /\ last' = Reply(method, status)
    /\ UNCHANGED files

\* The rest of the try statement, with the values of its local variables:
\* the payload is written under its tag, then what was extracted from it.
Save(method, data, base_name, file_extension, extracted_pdf, calls) ==
    \* an exception inside the try statement
    IF extracted_pdf = Raised THEN Refuse(method, 500)
    ELSE
        /\ files' =
              IF extracted_pdf # None /\ extracted_pdf # <<>>
              THEN WriteFile(WriteFile(files, base_name \o ExtChars(file_extension), data),
                             base_name \o EXTRACTED_SUFFIX, extracted_pdf)
              ELSE WriteFile(files, base_name \o ExtChars(file_extension), data)
        /\ last' = [ method      |-> method,
                     status      |-> 200,
                     payload     |-> data,
                     tag         |-> file_extension,
                     classified  |-> 1,
                     extractions |-> calls,
                     extracted   |-> extracted_pdf,
                     base_name   |-> base_name,
                     written     |-> IF extracted_pdf # None /\ extracted_pdf # <<>>
                                     THEN << base_name \o ExtChars(file_extension),
                                             base_name \o EXTRACTED_SUFFIX >>
                                     ELSE << base_name \o ExtChars(file_extension) >> ]

\* extract_pdf_from_xml is called on what the classifier tagged XML.
Extraction(file_extension, post_data) ==
    IF file_extension = ".xml" THEN Extracted[post_data] ELSE None

ExtractionCalls(file_extension) ==
    IF file_extension = ".xml" THEN 1 ELSE 0

do_POST(r) ==
    /\ served < MaxRequests
    /\ served' = served + 1
    /\ UNCHANGED <<arg, fn, tag, pdf, now>>
    /\ IF ~Authorized[r.auth] THEN Refuse("POST", 401)
       \* int() of a header that is no number raises
       ELSE IF r.cl = "garbage" THEN Refuse("POST", 500)
       ELSE IF r.cl \in {"absent", "zero"} THEN Refuse("POST", 400)
       ELSE Save("POST", r.body, splitext(PostFilename(r, now)), Tagged[r.body],
                 Extraction(Tagged[r.body], r.body), ExtractionCalls(Tagged[r.body]))

(***************************************************************************)
(* ECGUploadHandler.do_PUT: the payload is classified and written; the     *)
(* handler holds no call of extract_pdf_from_xml.                          *)
(***************************************************************************)
do_PUT(r) ==
    /\ served < MaxRequests
    /\ served' = served + 1
    /\ UNCHANGED <<arg, fn, tag, pdf, now>>
    /\ IF ~Authorized[r.auth] THEN Refuse("PUT", 401)
       ELSE IF r.cl = "garbage" THEN Refuse("PUT", 500)
       ELSE IF r.cl \in {"absent", "zero"} THEN Refuse("PUT", 400)
       ELSE Save("PUT", r.body, splitext(PutFilename(r, now)), Tagged[r.body], None, 0)

\* A second passes.
Tick ==
    /\ now < MaxClock
    /\ now' = now + 1
    /\ UNCHANGED <<arg, fn, tag, pdf, files, served, last>>

Init ==
    /\ arg = <<>>
    /\ fn = ""
    /\ tag = ""
    /\ pdf = NotCalled
    /\ files = <<>>
    /\ now = 0
    /\ served = 0
    /\ last = NoRequest

Post == \E r \in Requests : do_POST(r)

Put == \E r \in Requests : do_PUT(r)

Next == Post \/ Put \/ Tick

Spec == Init /\ [][Next]_vars

(***************************************************************************)
(* Properties of the classifier and of the extractor.                      *)
(***************************************************************************)
ExtractorNames == {"extract_pdf_from_xml", "extract_pdf_from_ecg_xml"}

\* C1: for every byte string p that starts with b'%PDF', the extractor
\* returns p for the document
\* <?xml version="1.0"?><Root><StudyData>base64(p)</StudyData></Root>,
\* whatever follows the signature in p (p = b'%PDF' included).
C1_RoundTrip ==
    \A p \in PdfBodies :
        (fn \in ExtractorNames /\ arg = Wrap(p)) => pdf = p

\* C2 as claimed: whatever the extractor returns starts with b'%PDF' and is
\* tagged '.pdf' by detect_file_type.
C2_ExtractedTaggedPdf ==
    (fn \in ExtractorNames /\ pdf # None) =>
        StartsWith(pdf, PDF_SIG) /\ detect_file_type(pdf) = ".pdf"

\* C2 as amended: whatever the extractor returns starts with b'%PDF';
\* detect_file_type tags it '.pdf' when it has at least 10 bytes and '.bin'
\* when it is shorter.
C2_ExtractedStartsWithPdf ==
    (fn \in ExtractorNames /\ pdf # None) =>
        /\ StartsWith(pdf, PDF_SIG)
        /\ Len(pdf) >= 10 => detect_file_type(pdf) = ".pdf"
        /\ Len(pdf) < 10 => detect_file_type(pdf) = ".bin"

C2_Witness ==
    /\ fn = "extract_pdf_from_xml"
    /\ pdf # None
    /\ Len(pdf) >= 10
    /\ detect_file_type(pdf) = ".pdf"

\* C3: detect_file_type returns one of the five tags for every byte string,
\* the empty one included, and '.bin' for every byte string shorter than 10
\* bytes, whatever it holds.
C3_Total ==
    fn = "detect_file_type" =>
        /\ tag \in {".pdf", ".xml", ".html", ".json", ".bin"}
        /\ Len(arg) < 10 => tag = ".bin"

C3_Witness ==
    /\ fn = "detect_file_type"
    /\ Len(arg) \in 1..9
    /\ StartsWith(arg, XML_DECL)
    /\ tag = ".bin"

JSON_SAMPLE == <<123, 34, 97, 34, 58, 49, 125>>    \* b'{"a":1}'

\* No rule above the JSON rule matches.
NoMarkupRule(data) ==
    /\ Take(data, 4) # PDF_SIG
    /\ Take(data, 5) # XML_DECL
    /\ ~Utf16LeRule(data)
    /\ ~Utf16BeRule(data)
    /\ ~HtmlRule(data)

\* The first 100 bytes, decoded with the bytes in error dropped and stripped
\* of white space, start with '{' or '['.
StartsLikeJson(data) ==
    LET text == Strip(DecodeUtf8(Take(data, 100), FALSE)) IN
    text # <<>> /\ text[1] \in {123, 91}

\* The same with U+FFFD put where bytes were in error.
StartsLikeJsonReplaced(data) ==
    LET text == Strip(DecodeUtf8Replace(Take(data, 100))) IN
    text # <<>> /\ text[1] \in {123, 91}

\* C4 as claimed: the seven bytes {"a":1} are tagged JSON.
C4_SampleIsJson ==
    (fn = "detect_file_type" /\ arg = JSON_SAMPLE) => tag = ".json"

\* C4 as amended: the seven bytes {"a":1} are tagged Binary, being shorter
\* than 10 bytes; a buffer of at least 10 bytes that matches no PDF, XML or
\* HTML rule and whose stripped text starts with '{' or '[' is tagged JSON.
C4_LongJsonTagged ==
    fn = "detect_file_type" =>
        /\ arg = JSON_SAMPLE => tag = ".bin"
        /\ (Len(arg) >= 10 /\ NoMarkupRule(arg) /\ StartsLikeJson(arg)) => tag = ".json"

C4_Witness ==
    /\ fn = "detect_file_type"
    /\ Take(arg, 2) = <<32, 91>>
    /\ NoMarkupRule(arg)
    /\ tag = ".json"

\* C5: a buffer of at least 10 bytes that starts with FF FE or with FE FF and
\* whose first 200 bytes, decoded in the matching UTF-16 order, contain
\* '<?xml' or '<restingecgdata' is tagged XML; nothing else is asked of the
\* bytes, for either byte order.
C5_BothByteOrders ==
    ( /\ fn = "detect_file_type"
      /\ Len(arg) >= 10
      /\ \/ /\ Take(arg, 2) = BOM_LE
            /\ HasXmlMarker(DecodeUtf16(Take(arg, 200), FALSE, FALSE))
         \/ /\ Take(arg, 2) = BOM_BE
            /\ HasXmlMarker(DecodeUtf16(Take(arg, 200), TRUE, FALSE)) )
    => tag = ".xml"

\* C6 as claimed: when no PDF, XML or HTML rule matches, the buffer is tagged
\* JSON if and only if its first 100 bytes, decoded as UTF-8 with U+FFFD put
\* for every invalid sequence and stripped, start with '{' or '['; otherwise
\* it is tagged Binary.
C6_JsonIffReplaced ==
    (fn = "detect_file_type" /\ NoMarkupRule(arg)) =>
        /\ tag = ".json" <=> StartsLikeJsonReplaced(arg)
        /\ tag \in {".json", ".bin"}

\* C6 as amended: when the buffer has at least 10 bytes and no PDF, XML or
\* HTML rule matches, it is tagged JSON if and only if its first 100 bytes,
\* decoded as UTF-8 with every invalid sequence dropped and stripped, start
\* with '{' or '['; otherwise it is tagged Binary.
C6_JsonIffDropped ==
    (fn = "detect_file_type" /\ Len(arg) >= 10 /\ NoMarkupRule(arg)) =>
        /\ tag = ".json" <=> StartsLikeJson(arg)
        /\ tag \in {".json", ".bin"}

C6_Witness ==
    /\ fn = "detect_file_type"
    /\ Take(arg, 2) = <<255, 123>>
    /\ NoMarkupRule(arg)
    /\ tag = ".json"

\* Text that is base64 from end to end: alphabet characters in groups of
\* four, '=' only as the last or the last two characters.
ValidBase64(t) ==
    /\ Len(t) % 4 = 0
    /\ \A i \in 1..Len(t) :
        \/ IsB64(t[i])
        \/ /\ t[i] = PAD
           /\ i >= Len(t) - 1
           /\ t[Len(t)] = PAD

\* C7: the extractor returns a document only when the whole trimmed text of
\* StudyData is valid base64: text that starts with 'JVBERi' and holds a
\* character outside the alphabet, or has invalid padding, yields None.
C7_OnlyValidBase64 ==
    \A t \in PartTexts :
        (fn \in ExtractorNames /\ arg = InRoot(t) /\ pdf # None) =>
            ValidBase64(Strip(DecodeUtf8(t, TRUE)))

\* The first element in document order, the root included and in whatever
\* namespace, whose name is StudyData; 0 if there is none.
FirstCarrier(toks) ==
    LET hits == {k \in 1..Len(toks) :
                    toks[k].kind \in {"open", "empty"} /\ toks[k].name = STUDY_DATA}
    IN  IF hits = {} THEN 0 ELSE CHOOSE k \in hits : \A j \in hits : k <= j

\* What the first StudyData element of the document arg holds as a PDF; None
\* if arg is no well-formed document, has no such element, or the element
\* holds no base64 PDF.
CarriedPdf(data) ==
    IF DecodeXml(data) = Raised \/ ~ParseXML(DecodeXml(data)).ok THEN None
    ELSE LET toks == ParseXML(DecodeXml(data)).toks IN
         IF FirstCarrier(toks) = 0 THEN None
         ELSE LET r == DecodePdf(Strip(ElementText(toks, FirstCarrier(toks)))) IN
              IF r = Raised THEN None ELSE r

\* C8: the extractor uses the first element in document order named
\* StudyData, be it the root or a descendant at any depth, in a namespace or
\* not: a well-formed document with a base64 PDF in that element yields the
\* PDF.
C8_FirstStudyDataAnywhere ==
    (fn \in ExtractorNames /\ CarriedPdf(arg) # None) => pdf = CarriedPdf(arg)

(***************************************************************************)
(* Properties of the handlers, on the behaviours of Spec.                  *)
(***************************************************************************)
\* The name under which the extracted document of the last upload belongs.
SiblingName == last.base_name \o EXTRACTED_SUFFIX

\* C9: every upload answered 200, by do_POST or by do_PUT, has called the
\* classifier once and the extractor once exactly when the tag is '.xml',
\* and the document the payload carries is in the file
\* '<base>_extracted.pdf'.
C9_CoordinatorOnEveryUpload ==
    last.status = 200 =>
        /\ last.classified = 1
        /\ last.extractions = (IF last.tag = ".xml" THEN 1 ELSE 0)
        /\ (last.tag = ".xml" /\ Extracted[last.payload] # None) =>
               /\ SiblingName \in DOMAIN files
               /\ files[SiblingName] = Extracted[last.payload]

\* The bodies tagged XML from which nothing is extracted: the body of the
\* extractor returns None or raises.
FailedExtractions ==
    {b \in Bodies : Tagged[b] = ".xml" /\ ExtractBody(b) \in {None, Raised}}

\* Those on which the body of the extractor raises.
RaisingExtractions ==
    {b \in Bodies : Tagged[b] = ".xml" /\ ExtractBody(b) = Raised}

\* C10: a POST with the right credentials and a body that is tagged '.xml'
\* and from which nothing is extracted, at whatever step the extraction
\* fails, is answered 200 and changes the files by one write only: the body,
\* unchanged, under the '.xml' name.
C10_ExtractionFailureNotFatal ==
    [][\A r \in Requests :
          ( /\ r.body \in FailedExtractions
            /\ r.cl = "length"
            /\ Authorized[r.auth]
            /\ do_POST(r) )
          => /\ last'.status = 200
             /\ last'.written = << splitext(PostFilename(r, now)) \o ExtChars(".xml") >>
             /\ files' = WriteFile(files,
                                   splitext(PostFilename(r, now)) \o ExtChars(".xml"),
                                   r.body)]_vars

\* A POST of a body whose extraction raised was answered 200, the body is in
\* the '.xml' file and there is no '_extracted.pdf' file.
C10_Witness ==
    /\ last.method = "POST"
    /\ last.status = 200
    /\ last.payload \in RaisingExtractions
    /\ last.extracted = None
    /\ served = 1
    /\ DOMAIN files = {last.base_name \o ExtChars(".xml")}
    /\ files[last.base_name \o ExtChars(".xml")] = last.payload

\* The text after the first space of a header, and the scheme before it; a
\* header without a space has neither.
HasTwoParts(h) == \E i \in 1..Len(h) : h[i] = SPACE

SchemeOf(h) ==
    SubSeq(h, 1, (CHOOSE i \in 1..Len(h) :
                     h[i] = SPACE /\ \A j \in 1..(i - 1) : h[j] # SPACE) - 1)

CredentialsOf(h) ==
    SubSeq(h, (CHOOSE i \in 1..Len(h) :
                  h[i] = SPACE /\ \A j \in 1..(i - 1) : h[j] # SPACE) + 1, Len(h))

\* b'admin:admin123'
USER_COLON_PASS == USERNAME \o <<COLON>> \o PASSWORD

\* The headers that hold the user name and the password: scheme 'basic' in
\* any letter case, and credentials that the lenient decoding of base64
\* (characters outside the alphabet and what follows the padding are
\* dropped) turns into 'admin:admin123'.
HoldsCredentials ==
    [h \in AuthHeaders |->
        /\ HasTwoParts(h)
        /\ Lower(SchemeOf(h)) = BASIC
        /\ b64decode(CredentialsOf(h)) = USER_COLON_PASS]

\* Those of them whose credentials are base64 from end to end.
WellFormedBasic ==
    [h \in AuthHeaders |-> HoldsCredentials[h] /\ ValidBase64(CredentialsOf(h))]

\* What the steps do when the headers for which ok holds are the ones let
\* in: a POST or PUT with any other header is answered 401 and changes no
\* file; one with a header let in and a Content-Length in empties is answered
\* 400 and changes no file; a step that changes a file is the step of a
\* request answered 200, and of no request with another header.
Gate(ok, empties) ==
    /\ \A r \in Requests :
          (~ok[r.auth] /\ (do_POST(r) \/ do_PUT(r)))
              => (last'.status = 401 /\ files' = files)
    /\ \A r \in Requests :
          (ok[r.auth] /\ r.cl \in empties /\ (do_POST(r) \/ do_PUT(r)))
              => (last'.status = 400 /\ files' = files)
    /\ files' # files =>
          /\ served' = served + 1
          /\ last'.status = 200
          /\ ~\E r \in Requests : ~ok[r.auth] /\ (do_POST(r) \/ do_PUT(r))

\* C11 as claimed: a file is created or replaced only by a POST or PUT whose
\* Authorization header is a well-formed Basic header that decodes to the
\* user name and the password; every other one is answered 401 and changes
\* no file; one with the right header and Content-Length 0 is answered 400
\* and changes no file.
C11_WellFormedGatesWrites ==
    [][Gate(WellFormedBasic, {"zero"})]_vars

\* C11 as amended: the same with the headers let in being those whose scheme
\* is 'basic' in any letter case and whose credentials decode leniently to
\* 'admin:admin123', well-formed base64 or not; a Content-Length that is 0
\* or not sent is answered 400.
C11_CredentialsGateWrites ==
    [][Gate(HoldsCredentials, {"zero", "absent"})]_vars

\* A request was answered 401 after an upload had been stored, and the file
\* of that upload is all there is.
C11_Witness ==
    /\ served = 2
    /\ last.status = 401
    /\ Cardinality(DOMAIN files) = 1
    /\ \E n \in DOMAIN files : files[n] \in Bodies

(***************************************************************************)
(* The names given to uploads that bring none.                             *)
(***************************************************************************)
Methods == {"POST", "PUT"}

Step(m, r) == IF m = "POST" THEN do_POST(r) ELSE do_PUT(r)

\* The request is read and stored: right credentials, a body of the length
\* announced.
Stored(r) == Authorized[r.auth] /\ r.cl = "length"

\* The path to which the upload r, handled by m at second t, is written.
ResolvedPath ==
    [m \in Methods, r \in Requests, t \in 0..MaxClock |->
        splitext(IF m = "POST" THEN PostFilename(r, t) ELSE PutFilename(r, t))
            \o ExtChars(Tagged[r.body])]

\* No name as the claim has it: no filename in Content-Disposition and an
\* empty last segment of the path.
NoNameClaimed(m, r) ==
    /\ DispositionName(r.disposition) = <<>>
    /\ r.path[Len(r.path)] = SLASH

\* No name as the handlers have it: do_POST finds no filename in
\* Content-Disposition and nothing but slashes in the path; do_PUT finds the
\* path ending in a slash and does not read Content-Disposition.
NoNameFound(m, r) ==
    IF m = "POST"
    THEN /\ DispositionName(r.disposition) = <<>>
         /\ \A i \in 1..Len(r.path) : r.path[i] = SLASH
    ELSE r.path[Len(r.path)] = SLASH

Tags == {".pdf", ".xml", ".html", ".json", ".bin"}

\* The uploads without a name that are stored, and the paths to which those
\* of one tag go in one second: as the claim has it, as the handlers have it.
ClaimedNameless ==
    {mr : mr \in {c \in Methods \X Requests :
                     NoNameClaimed(c[1], c[2]) /\ Stored(c[2])}}

FoundNameless ==
    {mr : mr \in {c \in Methods \X Requests :
                     NoNameFound(c[1], c[2]) /\ Stored(c[2])}}

ClaimedPaths ==
    [t \in 0..MaxClock, x \in Tags |->
        {ResolvedPath[mr[1], mr[2], t] :
            mr \in {c \in ClaimedNameless : Tagged[c[2].body] = x}}]

FoundPaths ==
    [t \in 0..MaxClock, x \in Tags |->
        {ResolvedPath[mr[1], mr[2], t] :
            mr \in {c \in FoundNameless : Tagged[c[2].body] = x}}]

\* What a step that stores an upload without a name does: the base name is
\* 'ecg_upload_' and the second of the clock; the uploads without a name and
\* of the same tag all go to its path in the same second, and none of them
\* goes to it in another second; when the upload before was answered 200 and
\* went to that path, the file now holds the later body, and the answer is
\* 200.
Window(nameless, paths) ==
    \A mr \in nameless :
        \* the first two conjuncts follow from the third, and are cheaper
        ( /\ last'.method = mr[1]
          /\ (last'.payload = mr[2].body \/ last'.status = 500)
          /\ Step(mr[1], mr[2]) ) =>
            /\ last'.status = 200
            /\ last'.base_name = UPLOAD_PREFIX \o Timestamp(now)
            /\ paths[now, last'.tag] = {last'.written[1]}
            /\ \A t \in 0..MaxClock :
                  t # now => last'.written[1] \notin paths[t, last'.tag]
            /\ (last.status = 200 /\ last.written[1] = last'.written[1]) =>
                  /\ last'.written[1] \in DOMAIN files
                  /\ files'[last'.written[1]] = mr[2].body

\* C12 as claimed: an upload with no filename in Content-Disposition and an
\* empty last path segment is stored under 'ecg_upload_<timestamp>'; two of
\* them of the same tag go to distinct paths in different seconds and to one
\* path in the same second, where the later write replaces the earlier and
\* both are answered 200.
C12_EmptySegmentWindow ==
    [][Window(ClaimedNameless, ClaimedPaths)]_vars

\* C12 as amended: the same for the uploads in which the handler finds no
\* name: a POST without filename in Content-Disposition whose path is made of
\* slashes only, a PUT whose path ends in a slash.
C12_DefaultNameWindow ==
    [][Window(FoundNameless, FoundPaths)]_vars

\* Two uploads without a name arrived in the same second: the XML file holds
\* the later body, next to the PDF extracted from the earlier one.
C12_Witness ==
    /\ served = 2
    /\ last.status = 200
    /\ last.payload = XML_NO_CARRIER
    /\ last.base_name = UPLOAD_PREFIX \o Timestamp(now)
    /\ DOMAIN files = {last.base_name \o ExtChars(".xml"), last.base_name \o EXTRACTED_SUFFIX}
    /\ files[last.base_name \o ExtChars(".xml")] = XML_NO_CARRIER
    /\ files[last.base_name \o EXTRACTED_SUFFIX] = PDF_REPORT

====
